---- MODULE Spec2Model ----
(***************************************************************************)
(* mgrep: a concurrent substring search over a directory tree.             *)
(*                                                                         *)
(* Two versions of the program are modelled, selected by `variant`:        *)
(*   variant = 1   src/main.go            (blocking read of results)       *)
(*   variant = 2   src/unnamed/part_000   (mutex + buffered results +      *)
(*                                         non-blocking select)            *)
(* Goroutines: main, collectStrings, and one parseDir / parseFile task per *)
(* filesystem entry.  Channels found and errors are unbuffered: a send is  *)
(* a rendezvous with a receiver.  Nothing ever receives from errors.       *)
(***************************************************************************)
EXTENDS Integers, Sequences, FiniteSets, TLC

(***************************************************************************)
(* Bounds of the model.                                                    *)
(***************************************************************************)
MaxNodes == 3

\* Longest file content of the line-scanner specification.
MaxLen == 3

VARIABLES
    variant,       \* 1: src/main.go, 2: src/unnamed/part_000
    nargs,         \* number of positional command-line arguments
    searchString,  \* os.Args[1]
    fs,            \* the directory tree: node id -> entry
    wg,            \* sync.WaitGroup counter
    foundClosed,   \* close(found) has been executed
    results,       \* buffer of the results channel
    resultsLock,   \* holder of the mutex: "free", "collect", "main"
    mainpc,        \* position of main; "exit": main returned, "panic" and
                   \* "fatal": the process died (panic, runtime deadlock)
    hits,          \* main's local hits
    printed,       \* what main has written to standard output
    branch,        \* which case main's select took: "none", "recv", "default"
    cpc,           \* position of the collectStrings goroutine
    value,         \* collectStrings' local value
    list,          \* collectStrings' local list
    pc,            \* position of each parseDir / parseFile task
    idx,           \* each task's loop position (elements already visited)
    sent,          \* history: FoundStrings whose send on found completed
    adds,          \* history: number of wg.Add(1) calls
    dones,         \* history: number of wg.Done calls of each task
    published,     \* history: number of completed sends on results
    received       \* history: number of receives from results by main

vars == <<variant, nargs, searchString, fs, wg, foundClosed, results,
          resultsLock, mainpc, hits, printed, branch, cpc, value, list,
          pc, idx, sent, adds, dones, published, received>>

(***************************************************************************)
(* Strings are sequences of one-character strings.                         *)
(***************************************************************************)
NL == "\n"

\* strings.Index: position (0-based) of the first occurrence, or -1.
Index(s, substr) ==
    LET hitsAt == {i \in 0..(Len(s) - Len(substr)) :
                      SubSeq(s, i + 1, i + Len(substr)) = substr}
    IN IF hitsAt = {} THEN -1
       ELSE CHOOSE i \in hitsAt : \A j \in hitsAt : i <= j

\* Mutant: only a match at the start of the line counts.
Contains_PrefixOnly(s, substr) == Index(s, substr) = 0

\* strings.Contains
Contains(s, substr) == Index(s, substr) >= 0

\* strings.Split for a non-empty separator: Count(sep)+1 pieces.
RECURSIVE Split(_, _)
Split(s, sep) ==
    LET m == Index(s, sep)
    IN IF m < 0 THEN <<s>>
       ELSE <<SubSeq(s, 1, m)>> \o Split(SubSeq(s, m + Len(sep) + 1, Len(s)), sep)

(***************************************************************************)
(* The filesystem.  Node 1 is the search directory; a node's parent has a  *)
(* smaller id.  err is the failure the entry produces: "read" makes        *)
(* os.ReadFile / os.ReadDir of the entry fail, "info" makes the entry's    *)
(* Info() fail while its parent lists it.  What the program cannot observe *)
(* is left out: the data of a file that cannot be read, the entries of a   *)
(* directory that cannot be listed, and the kind of an entry whose Info()  *)
(* fails (parseDir is stopped in check before it looks at IsDir).          *)
(***************************************************************************)
Root == 1

FileData == { <<"b">>, <<"a", NL, "b", NL, "a">> }

SearchStrings == { <<"a">> }

RootEntries ==
    { <<[parent |-> 0, isDir |-> TRUE, err |-> e, data |-> <<>>]>> :
        e \in {"none", "read"} }

\* The directories of tree t that can be listed.
Listable(t) == { q \in 1..Len(t) : t[q].isDir /\ t[q].err = "none" }

ChildEntries(t) ==
    { [parent |-> p, isDir |-> TRUE, err |-> e, data |-> <<>>] :
        p \in Listable(t), e \in {"none", "read"} }
    \cup
    { [parent |-> p, isDir |-> FALSE, err |-> "none", data |-> d] :
        p \in Listable(t), d \in FileData }
    \cup
    { [parent |-> p, isDir |-> FALSE, err |-> e, data |-> <<>>] :
        p \in Listable(t), e \in {"read", "info"} }

RECURSIVE TreesOfSize(_)
TreesOfSize(n) ==
    IF n = 1 THEN RootEntries
    ELSE UNION { { Append(t, c) : c \in ChildEntries(t) } : t \in TreesOfSize(n - 1) }

FileSystems == UNION { TreesOfSize(n) : n \in 1..MaxNodes }

NodeIds == 1..MaxNodes

Nodes == 1..Len(fs)

\* os.ReadDir: the entries of directory n, sorted by name.
RECURSIVE EntriesFrom(_, _)
EntriesFrom(n, c) ==
    IF c > Len(fs) THEN <<>>
    ELSE IF fs[c].parent = n THEN <<c>> \o EntriesFrom(n, c + 1)
    ELSE EntriesFrom(n, c + 1)

directoryList(n) == EntriesFrom(n, 1)

\* filepath.Join(path, name): the path of a node is the names from the root.
RECURSIVE completePath(_)
completePath(n) ==
    IF n = Root THEN <<Root>> ELSE Append(completePath(fs[n].parent), n)

\* strings.Split(string(fileData), "\n")
lines(n) == Split(fs[n].data, <<NL>>)

FoundString(n, i) == [path |-> completePath(n), index |-> i, line |-> lines(n)[i + 1]]

\* FoundString.String(): "Hit found in file <path>", "Line <index>: ",
\* "<line>"; the three parts of the block that vary.
String(f) == [file |-> f.path, lineLabel |-> f.index, text |-> f.line]

\* The zero value of the FoundString struct.
ZeroFoundString == [path |-> <<>>, index |-> 0, line |-> <<>>]

(***************************************************************************)
(* Initial state: nothing has run.                                         *)
(***************************************************************************)
Start ==
    /\ wg = 0
    /\ foundClosed = FALSE
    /\ results = <<>>
    /\ resultsLock = "free"
    /\ mainpc = "start"
    /\ hits = <<>>
    /\ printed = <<>>
    /\ branch = "none"
    /\ cpc = "none"
    /\ value = ZeroFoundString
    /\ list = <<>>
    /\ pc = [n \in 1..Len(fs) |-> "none"]
    /\ idx = [n \in 1..Len(fs) |-> 0]
    /\ sent = <<>>
    /\ adds = 0
    /\ dones = [n \in 1..Len(fs) |-> 0]
    /\ published = 0
    /\ received = 0

Init ==
    /\ variant \in {1, 2}
    /\ nargs \in 0..2
    /\ searchString \in SearchStrings
    /\ fs \in FileSystems
    /\ Start

(***************************************************************************)
(* Inputs of the line-scanner specification: the search directory holds    *)
(* one readable file, whose content is any string over Alphabet of at most *)
(* MaxLen characters, or the file of the three lines "hello", "world",     *)
(* "hello again".                                                          *)
(***************************************************************************)
Alphabet == {"a", "b", NL}

BoundedStrings == UNION { [1..k -> Alphabet] : k \in 0..MaxLen }

Hello == <<"h", "e", "l", "l", "o">>

HelloWorldData ==
    Hello \o <<NL, "w", "o", "r", "l", "d", NL>> \o Hello
          \o <<" ", "a", "g", "a", "i", "n">>

ScanData == BoundedStrings \cup {HelloWorldData}

ScanSearchStrings == { <<"a">>, <<"a", "b">>, Hello }

OneFileTree(d) ==
    << [parent |-> 0, isDir |-> TRUE, err |-> "none", data |-> <<>>],
       [parent |-> Root, isDir |-> FALSE, err |-> "none", data |-> d] >>

InitScan ==
    /\ variant \in {1, 2}
    /\ nargs = 2
    /\ searchString \in ScanSearchStrings
    /\ fs \in { OneFileTree(d) : d \in ScanData }
    /\ Start

\* The process is alive: main has neither returned nor crashed.
Running == mainpc \notin {"exit", "panic", "fatal"}

(***************************************************************************)
(* check(e): a non-nil error is sent on the unbuffered errors channel.     *)
(* No goroutine of the program receives from errors, so the send never     *)
(* finds a partner: the caller stays at "check".  With a nil error the     *)
(* caller continues at `next`.                                             *)
(***************************************************************************)
check(e, next) == IF e THEN "check" ELSE next

(***************************************************************************)
(* The WaitGroup.                                                          *)
(***************************************************************************)
wgAdd == wg' = wg + 1 /\ adds' = adds + 1

wgDone(n) == wg' = wg - 1 /\ dones' = [dones EXCEPT ![n] = @ + 1]

\* Mutant: Wait returns while one task is still outstanding.
wgWait_OffByOne == wg <= 1

wgWait == wg = 0

(***************************************************************************)
(* collectStrings                                                          *)
(***************************************************************************)
\* Mutant: the goroutine enters its loop without taking the lock.
collectStrings_NoLock ==
    /\ Running /\ cpc = "start"
    /\ cpc' = "recv"
    /\ UNCHANGED <<published, received>>
    /\ UNCHANGED <<variant, nargs, searchString, fs, wg, foundClosed, results,
                   resultsLock, mainpc, hits, printed, branch, value, list, pc,
                   idx, sent, adds, dones>>

\* variant 2: lock.Lock() (the deferred Unlock is registered before it);
\* variant 1: the goroutine goes straight to its loop.
collectStrings_Lock ==
    /\ Running /\ cpc = "start"
    /\ IF variant = 2
       THEN resultsLock = "free" /\ resultsLock' = "collect"
       ELSE UNCHANGED resultsLock
    /\ cpc' = "recv"
    /\ UNCHANGED <<published, received>>
    /\ UNCHANGED <<variant, nargs, searchString, fs, wg, foundClosed, results,
                   mainpc, hits, printed, branch, value, list, pc, idx, sent,
                   adds, dones>>

\* Mutant: the list is published without the len(list) > 0 test.
collectStrings_BreakAlwaysSend ==
    /\ Running /\ cpc = "recv" /\ foundClosed
    /\ cpc' = "send"
    /\ UNCHANGED <<published, received>>
    /\ UNCHANGED <<variant, nargs, searchString, fs, wg, foundClosed, results,
                   resultsLock, mainpc, hits, printed, branch, value, list, pc,
                   idx, sent, adds, dones>>

\* value, ok := <-found with ok = false: found is closed; break and test len(list).
collectStrings_Break ==
    /\ Running /\ cpc = "recv" /\ foundClosed
    /\ cpc' = IF Len(list) > 0 THEN "send" ELSE "ret"
    /\ UNCHANGED <<published, received>>
    /\ UNCHANGED <<variant, nargs, searchString, fs, wg, foundClosed, results,
                   resultsLock, mainpc, hits, printed, branch, value, list, pc,
                   idx, sent, adds, dones>>

\* Mutant: a new value is put in front of the list.
collectStrings_Prepend ==
    /\ Running /\ cpc = "append"
    /\ list' = <<value>> \o list
    /\ cpc' = "recv"
    /\ UNCHANGED <<published, received>>
    /\ UNCHANGED <<variant, nargs, searchString, fs, wg, foundClosed, results,
                   resultsLock, mainpc, hits, printed, branch, value, pc, idx,
                   sent, adds, dones>>

\* Mutant: the list is overwritten instead of appended to.
collectStrings_Overwrite ==
    /\ Running /\ cpc = "append"
    /\ list' = <<value>>
    /\ cpc' = "recv"
    /\ UNCHANGED <<published, received>>
    /\ UNCHANGED <<variant, nargs, searchString, fs, wg, foundClosed, results,
                   resultsLock, mainpc, hits, printed, branch, value, pc, idx,
                   sent, adds, dones>>

\* (time.Sleep in variant 1, then) list = append(list, value)
collectStrings_Append ==
    /\ Running /\ cpc = "append"
    /\ list' = Append(list, value)
    /\ cpc' = "recv"
    /\ UNCHANGED <<published, received>>
    /\ UNCHANGED <<variant, nargs, searchString, fs, wg, foundClosed, results,
                   resultsLock, mainpc, hits, printed, branch, value, pc, idx,
                   sent, adds, dones>>

\* make(chan []FoundString): unbuffered in src/main.go.
ResultsCapV1 == 0

\* make(chan []FoundString, 1) in src/unnamed/part_000.
ResultsCapV2 == 1

\* Mutant: results is unbuffered in both variants.
ResultsCap_Unbuffered == ResultsCapV1

\* Capacity of the results channel.
ResultsCap == IF variant = 1 THEN ResultsCapV1 ELSE ResultsCapV2

\* results <- list into the channel's buffer (variant 2, capacity 1).
collectStrings_Publish ==
    /\ Running /\ cpc = "send"
    /\ Len(results) < ResultsCap
    /\ results' = Append(results, list)
    /\ cpc' = "ret"
    /\ published' = published + 1
    /\ UNCHANGED received
    /\ UNCHANGED <<variant, nargs, searchString, fs, wg, foundClosed,
                   resultsLock, mainpc, hits, printed, branch, value, list, pc,
                   idx, sent, adds, dones>>

\* return; variant 2 runs the deferred lock.Unlock().
collectStrings_Return ==
    /\ Running /\ cpc = "ret"
    /\ resultsLock' = IF variant = 2 THEN "free" ELSE resultsLock
    /\ cpc' = "done"
    /\ UNCHANGED <<published, received>>
    /\ UNCHANGED <<variant, nargs, searchString, fs, wg, foundClosed, results,
                   mainpc, hits, printed, branch, value, list, pc, idx, sent,
                   adds, dones>>

(***************************************************************************)
(* parseFile                                                               *)
(***************************************************************************)
\* fileData, err := os.ReadFile(path); check(err); lines := strings.Split(...)
parseFile_Read(n) ==
    /\ n \in Nodes /\ Running /\ pc[n] = "start" /\ ~fs[n].isDir
    /\ pc' = [pc EXCEPT ![n] = check(fs[n].err = "read", "loop")]
    /\ UNCHANGED <<published, received>>
    /\ UNCHANGED <<variant, nargs, searchString, fs, wg, foundClosed, results,
                   resultsLock, mainpc, hits, printed, branch, cpc, value, list,
                   idx, sent, adds, dones>>

\* The line the loop is at contains searchString.
AtMatch(n) ==
    /\ idx[n] < Len(lines(n))
    /\ Contains(lines(n)[idx[n] + 1], searchString)

\* A loop iteration whose line does not contain searchString.
parseFile_Skip(n) ==
    /\ n \in Nodes /\ Running /\ pc[n] = "loop" /\ ~fs[n].isDir
    /\ idx[n] < Len(lines(n))
    /\ ~AtMatch(n)
    /\ idx' = [idx EXCEPT ![n] = @ + 1]
    /\ UNCHANGED <<published, received>>
    /\ UNCHANGED <<variant, nargs, searchString, fs, wg, foundClosed, results,
                   resultsLock, mainpc, hits, printed, branch, cpc, value, list,
                   pc, sent, adds, dones>>

\* Mutant: a non-blocking send; the match is dropped when collectStrings is
\* not at its receive.
parseFile_SendOrDrop(n) ==
    /\ n \in Nodes /\ Running /\ pc[n] = "loop" /\ ~fs[n].isDir
    /\ AtMatch(n)
    /\ IF cpc = "recv" /\ ~foundClosed
       THEN /\ value' = FoundString(n, idx[n])
            /\ cpc' = "append"
            /\ sent' = Append(sent, FoundString(n, idx[n]))
       ELSE UNCHANGED <<cpc, value, sent>>
    /\ idx' = [idx EXCEPT ![n] = @ + 1]
    /\ UNCHANGED <<published, received>>
    /\ UNCHANGED <<variant, nargs, searchString, fs, wg, foundClosed, results,
                   resultsLock, mainpc, hits, printed, branch, list, pc, adds,
                   dones>>

\* found <- FoundString{...}: a rendezvous with collectStrings' receive.
\* A send on a closed channel panics and ends the process.
parseFile_Send(n) ==
    /\ n \in Nodes /\ Running /\ pc[n] = "loop" /\ ~fs[n].isDir
    /\ AtMatch(n)
    /\ IF foundClosed
       THEN /\ mainpc' = "panic"
            /\ UNCHANGED <<cpc, value, sent, idx>>
       ELSE /\ cpc = "recv"
            /\ value' = FoundString(n, idx[n])
            /\ cpc' = "append"
            /\ sent' = Append(sent, FoundString(n, idx[n]))
            /\ idx' = [idx EXCEPT ![n] = @ + 1]
            /\ UNCHANGED mainpc
    /\ UNCHANGED <<published, received>>
    /\ UNCHANGED <<variant, nargs, searchString, fs, wg, foundClosed, results,
                   resultsLock, hits, printed, branch, list, pc, adds, dones>>

\* The loop is over: the function returns and runs the deferred wg.Done().
parseFile_Done(n) ==
    /\ n \in Nodes /\ Running /\ pc[n] = "loop" /\ ~fs[n].isDir
    /\ idx[n] = Len(lines(n))
    /\ wgDone(n)
    /\ pc' = [pc EXCEPT ![n] = "done"]
    /\ UNCHANGED <<published, received>>
    /\ UNCHANGED <<variant, nargs, searchString, fs, foundClosed, results,
                   resultsLock, mainpc, hits, printed, branch, cpc, value, list,
                   idx, sent, adds>>

(***************************************************************************)
(* parseDir                                                                *)
(***************************************************************************)
\* directoryList, err := os.ReadDir(path); check(err)
parseDir_Read(n) ==
    /\ n \in Nodes /\ Running /\ pc[n] = "start" /\ fs[n].isDir
    /\ pc' = [pc EXCEPT ![n] = check(fs[n].err = "read", "loop")]
    /\ UNCHANGED <<published, received>>
    /\ UNCHANGED <<variant, nargs, searchString, fs, wg, foundClosed, results,
                   resultsLock, mainpc, hits, printed, branch, cpc, value, list,
                   idx, sent, adds, dones>>

\* The entry the loop is at.
file(n) == directoryList(n)[idx[n] + 1]

\* fileInfo, err := file.Info(); check(err); completePath := ...
\* With a failing Info the task is stopped in check, before fileInfo is used.
parseDir_Info(n) ==
    /\ n \in Nodes /\ Running /\ pc[n] = "loop" /\ fs[n].isDir
    /\ idx[n] < Len(directoryList(n))
    /\ pc' = [pc EXCEPT ![n] = check(fs[file(n)].err = "info", "add")]
    /\ UNCHANGED <<published, received>>
    /\ UNCHANGED <<variant, nargs, searchString, fs, wg, foundClosed, results,
                   resultsLock, mainpc, hits, printed, branch, cpc, value, list,
                   idx, sent, adds, dones>>

\* Mutant: wg.Add(1) is missing in the directory arm.
parseDir_AddFilesOnly(n) ==
    /\ n \in Nodes /\ Running /\ pc[n] = "add"
    /\ IF fs[file(n)].isDir THEN UNCHANGED <<wg, adds>> ELSE wgAdd
    /\ pc' = [pc EXCEPT ![n] = "go"]
    /\ UNCHANGED <<published, received>>
    /\ UNCHANGED <<variant, nargs, searchString, fs, foundClosed, results,
                   resultsLock, mainpc, hits, printed, branch, cpc, value, list,
                   idx, sent, dones>>

\* wg.Add(1), in either arm of if file.IsDir()
parseDir_Add(n) ==
    /\ n \in Nodes /\ Running /\ pc[n] = "add"
    /\ wgAdd
    /\ pc' = [pc EXCEPT ![n] = "go"]
    /\ UNCHANGED <<published, received>>
    /\ UNCHANGED <<variant, nargs, searchString, fs, foundClosed, results,
                   resultsLock, mainpc, hits, printed, branch, cpc, value, list,
                   idx, sent, dones>>

\* go parseDir(completePath, ...) or go parseFile(completePath, ...)
parseDir_Go(n) ==
    /\ n \in Nodes /\ Running /\ pc[n] = "go"
    /\ pc' = [pc EXCEPT ![n] = "loop", ![file(n)] = "start"]
    /\ idx' = [idx EXCEPT ![n] = @ + 1]
    /\ UNCHANGED <<published, received>>
    /\ UNCHANGED <<variant, nargs, searchString, fs, wg, foundClosed, results,
                   resultsLock, mainpc, hits, printed, branch, cpc, value, list,
                   sent, adds, dones>>

\* The loop is over: the function returns and runs the deferred wg.Done().
parseDir_Done(n) ==
    /\ n \in Nodes /\ Running /\ pc[n] = "loop" /\ fs[n].isDir
    /\ idx[n] = Len(directoryList(n))
    /\ wgDone(n)
    /\ pc' = [pc EXCEPT ![n] = "done"]
    /\ UNCHANGED <<published, received>>
    /\ UNCHANGED <<variant, nargs, searchString, fs, foundClosed, results,
                   resultsLock, mainpc, hits, printed, branch, cpc, value, list,
                   idx, sent, adds>>

(***************************************************************************)
(* main                                                                    *)
(***************************************************************************)
\* go collectStrings() / go collectStrings(&resultsLock)
main_GoCollect ==
    /\ mainpc = "start"
    /\ cpc' = "start"
    /\ mainpc' = "args"
    /\ UNCHANGED <<published, received>>
    /\ UNCHANGED <<variant, nargs, searchString, fs, wg, foundClosed, results,
                   resultsLock, hits, printed, branch, value, list, pc, idx,
                   sent, adds, dones>>

\* Mutant: the arguments are used without being there.
main_ArgsUnchecked ==
    /\ mainpc = "args"
    /\ mainpc' = "add"
    /\ UNCHANGED <<published, received>>
    /\ UNCHANGED <<variant, nargs, searchString, fs, wg, foundClosed, results,
                   resultsLock, hits, printed, branch, cpc, value, list, pc,
                   idx, sent, adds, dones>>

\* searchString := os.Args[1]; searchDir := os.Args[2]
\* An index out of range panics and ends the process.
main_Args ==
    /\ mainpc = "args"
    /\ mainpc' = IF nargs < 2 THEN "panic" ELSE "add"
    /\ UNCHANGED <<published, received>>
    /\ UNCHANGED <<variant, nargs, searchString, fs, wg, foundClosed, results,
                   resultsLock, hits, printed, branch, cpc, value, list, pc,
                   idx, sent, adds, dones>>

\* wg.Add(1)
main_Add ==
    /\ mainpc = "add"
    /\ wgAdd
    /\ mainpc' = "go"
    /\ UNCHANGED <<published, received>>
    /\ UNCHANGED <<variant, nargs, searchString, fs, foundClosed, results,
                   resultsLock, hits, printed, branch, cpc, value, list, pc,
                   idx, sent, dones>>

\* go parseDir(searchDir, searchString)
main_GoParseDir ==
    /\ mainpc = "go"
    /\ pc' = [pc EXCEPT ![Root] = "start"]
    /\ mainpc' = "wait"
    /\ UNCHANGED <<published, received>>
    /\ UNCHANGED <<variant, nargs, searchString, fs, wg, foundClosed, results,
                   resultsLock, hits, printed, branch, cpc, value, list, idx,
                   sent, adds, dones>>

\* Mutant: main does not wait for the tasks.
main_NoWait ==
    /\ mainpc = "wait"
    /\ mainpc' = "close"
    /\ UNCHANGED <<published, received>>
    /\ UNCHANGED <<variant, nargs, searchString, fs, wg, foundClosed, results,
                   resultsLock, hits, printed, branch, cpc, value, list, pc,
                   idx, sent, adds, dones>>

\* wg.Wait()
main_Wait ==
    /\ mainpc = "wait"
    /\ wgWait
    /\ mainpc' = "close"
    /\ UNCHANGED <<published, received>>
    /\ UNCHANGED <<variant, nargs, searchString, fs, wg, foundClosed, results,
                   resultsLock, hits, printed, branch, cpc, value, list, pc,
                   idx, sent, adds, dones>>

\* close(found)
main_Close ==
    /\ mainpc = "close"
    /\ foundClosed' = TRUE
    /\ mainpc' = IF variant = 1 THEN "recv" ELSE "lock"
    /\ UNCHANGED <<published, received>>
    /\ UNCHANGED <<variant, nargs, searchString, fs, wg, results, resultsLock,
                   hits, printed, branch, cpc, value, list, pc, idx, sent,
                   adds, dones>>

\* variant 1: hits := <-results, a rendezvous with collectStrings' send on
\* the unbuffered results channel.
main_Recv ==
    /\ mainpc = "recv"
    /\ cpc = "send"
    /\ hits' = list
    /\ cpc' = "ret"
    /\ mainpc' = "print"
    /\ published' = published + 1
    /\ received' = received + 1
    /\ UNCHANGED <<variant, nargs, searchString, fs, wg, foundClosed, results,
                   resultsLock, printed, branch, value, list, pc, idx, sent,
                   adds, dones>>

\* variant 2: resultsLock.Lock()
main_Lock ==
    /\ mainpc = "lock"
    /\ resultsLock = "free"
    /\ resultsLock' = "main"
    /\ mainpc' = "select"
    /\ UNCHANGED <<published, received>>
    /\ UNCHANGED <<variant, nargs, searchString, fs, wg, foundClosed, results,
                   hits, printed, branch, cpc, value, list, pc, idx, sent,
                   adds, dones>>

\* variant 2: select { case hits := <-results: ... default: }
main_Select ==
    /\ mainpc = "select"
    /\ IF Len(results) > 0
       THEN /\ hits' = Head(results)
            /\ results' = Tail(results)
            /\ branch' = "recv"
            /\ mainpc' = "print"
       ELSE /\ branch' = "default"
            /\ mainpc' = "exit"
            /\ UNCHANGED <<hits, results>>
    /\ received' = IF Len(results) > 0 THEN received + 1 ELSE received
    /\ UNCHANGED published
    /\ UNCHANGED <<variant, nargs, searchString, fs, wg, foundClosed,
                   resultsLock, printed, cpc, value, list, pc, idx, sent,
                   adds, dones>>

\* fmt.Println of the hits (each formatted by its String method), then main
\* returns.
main_Print ==
    /\ mainpc = "print"
    /\ printed' = [i \in DOMAIN hits |-> String(hits[i])]
    /\ mainpc' = "exit"
    /\ UNCHANGED <<published, received>>
    /\ UNCHANGED <<variant, nargs, searchString, fs, wg, foundClosed, results,
                   resultsLock, hits, branch, cpc, value, list, pc, idx, sent,
                   adds, dones>>

(***************************************************************************)
(* Steps of the goroutines, and of the Go runtime.                         *)
(***************************************************************************)
mainStep ==
    \/ main_GoCollect \/ main_Args \/ main_Add \/ main_GoParseDir
    \/ main_Wait \/ main_Close \/ main_Recv \/ main_Lock \/ main_Select
    \/ main_Print

collectStep ==
    \/ collectStrings_Lock \/ collectStrings_Break \/ collectStrings_Append
    \/ collectStrings_Publish \/ collectStrings_Return

parseFileStep(n) ==
    \/ parseFile_Read(n) \/ parseFile_Skip(n) \/ parseFile_Send(n)
    \/ parseFile_Done(n)

parseDirStep(n) ==
    \/ parseDir_Read(n) \/ parseDir_Info(n) \/ parseDir_Add(n)
    \/ parseDir_Go(n) \/ parseDir_Done(n)

taskStep(n) == parseFileStep(n) \/ parseDirStep(n)

\* main is not blocked: it is not parked in wg.Wait, in the receive from
\* results or in resultsLock.Lock().
mainRunnable ==
    \/ mainpc \in {"start", "args", "add", "go", "close", "select", "print"}
    \/ mainpc = "wait" /\ wgWait
    \/ mainpc = "recv" /\ cpc = "send"
    \/ mainpc = "lock" /\ resultsLock = "free"

\* collectStrings is not blocked in lock.Lock(), in the receive from found
\* or in the send on results.
collectRunnable ==
    \/ cpc = "start" /\ (variant = 2 => resultsLock = "free")
    \/ cpc = "recv" /\ foundClosed
    \/ cpc \in {"append", "ret"}
    \/ cpc = "send" /\ Len(results) < ResultsCap

\* Task n is not blocked in the send on errors or in the send on found.
taskRunnable(n) ==
    \/ pc[n] \in {"start", "add", "go"}
    \/ pc[n] = "loop" /\ (fs[n].isDir \/ ~AtMatch(n) \/ foundClosed \/ cpc = "recv")

\* Some goroutine can take a step.
Runnable == mainRunnable \/ collectRunnable \/ \E n \in Nodes : taskRunnable(n)

\* The runtime's deadlock detector: when every goroutine is blocked the
\* process dies with "fatal error: all goroutines are asleep - deadlock!".
runtime_Deadlock ==
    /\ Running
    /\ ~Runnable
    /\ mainpc' = "fatal"
    /\ UNCHANGED <<published, received>>
    /\ UNCHANGED <<variant, nargs, searchString, fs, wg, foundClosed, results,
                   resultsLock, hits, printed, branch, cpc, value, list, pc,
                   idx, sent, adds, dones>>

Next ==
    \/ mainStep
    \/ collectStep
    \/ \E n \in NodeIds : taskStep(n)
    \/ runtime_Deadlock

Spec == Init /\ [][Next]_vars

\* The program run on the inputs of the line-scanner specification.
ScanSpec == InitScan /\ [][Next]_vars

\* The Go scheduler runs some runnable goroutine as long as there is one.
FairSpec == Spec /\ WF_vars(Next)

\* Sanity of the model: Runnable is exactly the enabledness of a goroutine
\* step, so runtime_Deadlock fires precisely when every goroutine is blocked.
RunnableIsEnabled ==
    Running =>
        (Runnable <=> ENABLED (mainStep \/ collectStep \/ \E n \in NodeIds : taskStep(n)))

(***************************************************************************)
(* Vocabulary of the properties.                                           *)
(***************************************************************************)
Range(q) == { q[i] : i \in DOMAIN q }

Occurrences(q, x) == Cardinality({ i \in DOMAIN q : q[i] = x })

RECURSIVE SumTo(_, _)
SumTo(f, k) == IF k = 0 THEN 0 ELSE f[k] + SumTo(f, k - 1)

\* Every ReadDir, ReadFile and Info of the tree succeeds.
Readable == \A n \in Nodes : fs[n].err = "none"

Files == { n \in Nodes : ~fs[n].isDir }

\* The tree has files, every ReadFile fails, and nothing else does.
OnlyUnreadableFiles ==
    /\ Files # {}
    /\ \A n \in Nodes : fs[n].err = (IF fs[n].isDir THEN "none" ELSE "read")

\* The FoundStrings a complete scan of the tree yields.
AllMatches ==
    UNION { { FoundString(n, i) :
                i \in { k \in 0..(Len(lines(n)) - 1) :
                           Contains(lines(n)[k + 1], searchString) } } :
            n \in Files }

\* main has received a list from the results channel.
MainReceived ==
    \/ variant = 1 /\ mainpc \in {"print", "exit"}
    \/ variant = 2 /\ branch = "recv"

\* wg.Wait() has returned.
WaitReturned == mainpc = "close" \/ foundClosed

\* A task that has been launched has run its deferred wg.Done().
Terminated(n) == pc[n] = "done"

Started(n) == pc[n] # "none"

(***************************************************************************)
(* C1: in both variants, the list main receives from results holds every   *)
(* FoundString whose send on found completed exactly once: none is         *)
(* missing and none is duplicated.                                         *)
(***************************************************************************)
C1_ReceivedListComplete ==
    MainReceived =>
        /\ \A m \in Range(sent) : Occurrences(hits, m) = 1
        /\ \A m \in Range(hits) : Occurrences(hits, m) = 1 /\ m \in Range(sent)

C1_Witness ==
    /\ MainReceived
    /\ Len(sent) >= 3
    /\ \E i, j \in DOMAIN sent : sent[i].path # sent[j].path

(***************************************************************************)
(* C2: in both variants, close(found) is executed only after every task    *)
(* ever spawned has terminated, so at and after the close no task is at a  *)
(* send on found and nothing more is sent.                                 *)
(***************************************************************************)
C2_CloseAfterAllTasks ==
    (mainpc = "close" \/ foundClosed) =>
        /\ \A n \in Nodes : Started(n) => Terminated(n)
        /\ mainpc # "panic"

C2_Witness ==
    /\ foundClosed
    /\ Len(sent) > 0
    /\ \E n \in Nodes : fs[n].parent > Root /\ Terminated(n)

(***************************************************************************)
(* C3: in both variants, a tree containing only unreadable files makes the *)
(* program terminate with zero matches: it never ends in the runtime's     *)
(* all-goroutines-asleep failure.                                          *)
(***************************************************************************)
C3_UnreadableFilesTerminate ==
    (nargs = 2 /\ OnlyUnreadableFiles) => mainpc # "fatal"

(***************************************************************************)
(* C4: in both variants, every task that was started has called wg.Done    *)
(* exactly once by the time the program ends, also when its read or an     *)
(* entry's Info failed; a failing task has sent no match.                  *)
(***************************************************************************)
C4_EveryTaskSignalsDone ==
    /\ \A n \in Nodes : dones[n] <= 1
    /\ mainpc \in {"exit", "fatal"} =>
           \A n \in Nodes : Started(n) => dones[n] = 1

(***************************************************************************)
(* C5: in both variants, a task that reports a non-nil error through       *)
(* check is not left blocked in the send on errors: the program never ends *)
(* with a task still inside check.                                         *)
(***************************************************************************)
C5_CheckNeverBlocksForever ==
    ~Running => \A n \in Nodes : pc[n] # "check"

(***************************************************************************)
(* C6: in src/main.go, a readable tree without any matching line makes     *)
(* main terminate normally with nothing printed; main is not left blocked  *)
(* after close(found).                                                     *)
(***************************************************************************)
C6_NoMatchTerminatesV1 ==
    (variant = 1 /\ nargs = 2 /\ Readable /\ AllMatches = {}) =>
        ~(foundClosed /\ mainpc = "fatal")

(***************************************************************************)
(* C7: in src/unnamed/part_000, for every readable tree and every fair     *)
(* interleaving main terminates normally, with or without matches.         *)
(***************************************************************************)
C7_ReadableTerminatesV2 ==
    (variant = 2 /\ nargs = 2 /\ Readable) => <>(mainpc = "exit")

C7_Witness ==
    /\ variant = 2 /\ Readable /\ mainpc = "exit"
    /\ Len(fs) >= 3
    /\ AllMatches # {}

(***************************************************************************)
(* C8: in src/unnamed/part_000, main's select takes the default branch     *)
(* only when no match was ever sent; when a match was sent, the complete   *)
(* list is in results when main reaches the select.                        *)
(***************************************************************************)
C8_DefaultOnlyWithoutMatches ==
    variant = 2 =>
        /\ branch = "default" => Len(sent) = 0
        /\ (mainpc = "select" /\ Len(sent) > 0) => results = <<sent>>

C8_Witness ==
    /\ variant = 2
    /\ mainpc = "select"
    /\ Len(sent) >= 2

(***************************************************************************)
(* C9: in src/unnamed/part_000, the mutex is held by collectStrings while  *)
(* that goroutine is running, so main's resultsLock.Lock() returns only    *)
(* after collectStrings has finished.                                      *)
(***************************************************************************)
C9_MainLocksAfterCollectorDone ==
    (variant = 2 /\ resultsLock = "main") => cpc = "done"

(***************************************************************************)
(* C10: in both variants, for a readable tree with N entries, exactly N    *)
(* wg.Add(1) and exactly N wg.Done have occurred when wg.Wait returns, and *)
(* close(found) is not executed before that.                               *)
(***************************************************************************)
C10_FanInComplete ==
    (Readable /\ WaitReturned) =>
        /\ adds = Len(fs)
        /\ SumTo(dones, Len(fs)) = Len(fs)
        /\ wg = 0

C10_Witness ==
    /\ Readable
    /\ foundClosed
    /\ Len(fs) >= 3
    /\ \E n \in Nodes : fs[n].parent > Root

(***************************************************************************)
(* C11: for a root directory with one file of the three lines "hello",     *)
(* "world", "hello again" and search string "hello", the output contains   *)
(* two matches: (file, line 1, "hello") and (file, line 3, "hello again"). *)
(***************************************************************************)
Scenario1 ==
    /\ Len(fs) = 2
    /\ fs[2] = OneFileTree(HelloWorldData)[2]
    /\ searchString = Hello

C11_Scenario1Output ==
    (Scenario1 /\ mainpc = "exit") =>
        Range(printed) =
            { [file |-> <<Root, 2>>, lineLabel |-> 1, text |-> Hello],
              [file |-> <<Root, 2>>, lineLabel |-> 3,
               text |-> Hello \o <<" ", "a", "g", "a", "i", "n">>] }

(***************************************************************************)
(* C12: in both variants, for a readable file and a non-empty search       *)
(* string S, parseFile sends (path, index, line) for a line exactly when   *)
(* the line contains S as a literal substring, with the line's full text   *)
(* and its position in the "\n"-split of the file; lines without S and an  *)
(* empty file produce no match.                                            *)
(***************************************************************************)
\* The positions of the newlines of d.
NewlinesOf(d) == { p \in 1..Len(d) : d[p] = NL }

\* The position of the k-th newline of d (k >= 1).
NewlineAt(d, k) ==
    CHOOSE p \in NewlinesOf(d) : Cardinality({ q \in NewlinesOf(d) : q < p }) = k - 1

NumLines(d) == Cardinality(NewlinesOf(d)) + 1

\* Line k (from 0) of d: the text between the k-th and the (k+1)-th newline.
LineText(d, k) ==
    SubSeq(d,
           IF k = 0 THEN 1 ELSE NewlineAt(d, k) + 1,
           IF k = NumLines(d) - 1 THEN Len(d) ELSE NewlineAt(d, k + 1) - 1)

\* l = u \o S \o v for some u and v.
IsInfix(S, l) ==
    \E i \in 0..Len(l) :
        /\ i + Len(S) <= Len(l)
        /\ l = SubSeq(l, 1, i) \o S \o SubSeq(l, i + Len(S) + 1, Len(l))

RECURSIVE ExpectedFrom(_, _)
ExpectedFrom(n, k) ==
    IF k >= NumLines(fs[n].data) THEN <<>>
    ELSE (IF IsInfix(searchString, LineText(fs[n].data, k))
          THEN << [path |-> completePath(n), index |-> k,
                   line |-> LineText(fs[n].data, k)] >>
          ELSE <<>>) \o ExpectedFrom(n, k + 1)

\* What file n has sent on found so far.
SentOf(n) ==
    LET OfN(m) == m.path = completePath(n)
    IN SelectSeq(sent, OfN)

C12_MatchIffLineContains ==
    \A n \in Files :
        /\ \A m \in Range(SentOf(n)) : m \in Range(ExpectedFrom(n, 0))
        /\ (fs[n].err = "none" /\ Terminated(n)) => SentOf(n) = ExpectedFrom(n, 0)

C12_Witness ==
    \E n \in Files :
        /\ Terminated(n)
        /\ Len(SentOf(n)) >= 2
        /\ Len(SentOf(n)) < NumLines(fs[n].data)

(***************************************************************************)
(* C13: in both variants, for a fixed readable tree and search string, any *)
(* two terminating runs yield the same set of matches in the final list:   *)
(* the set is the one the tree and the search string determine, whatever   *)
(* the interleaving.                                                       *)
(***************************************************************************)
C13_FinalSetDeterminedByInput ==
    (Readable /\ mainpc = "exit") => Range(hits) = AllMatches

C13_Witness ==
    /\ Readable /\ mainpc = "exit"
    /\ Len(hits) >= 4
    /\ hits[1].path # hits[2].path
    /\ hits[1].path = <<Root, 3>>

(***************************************************************************)
(* C14: in both variants, with fewer than two positional arguments main    *)
(* fails before any traversal: wg.Add is never called, no parseDir or      *)
(* parseFile task is launched and nothing is sent on found.                *)
(***************************************************************************)
C14_NoTraversalWithoutArgs ==
    nargs < 2 =>
        /\ mainpc \in {"start", "args", "panic"}
        /\ adds = 0 /\ wg = 0
        /\ \A n \in Nodes : ~Started(n)
        /\ sent = <<>>

C14_Witness ==
    /\ nargs < 2
    /\ mainpc = "panic"
    /\ Len(fs) >= 2

(***************************************************************************)
(* C15: in both variants, in every reachable state the WaitGroup counter   *)
(* is the number of tasks registered by wg.Add(1) that have not yet called *)
(* wg.Done: the tasks running plus those registered and not yet started.   *)
(* It is never negative and is zero only when there is no such task.       *)
(***************************************************************************)
\* Tasks launched and not yet finished.
RunningTasks == { n \in Nodes : pc[n] \notin {"none", "done"} }

\* Registrations whose go statement has not been executed yet.
RegisteredNotStarted ==
    Cardinality({ n \in Nodes : pc[n] = "go" }) + (IF mainpc = "go" THEN 1 ELSE 0)

C15_CounterIsOutstandingTasks ==
    /\ wg = Cardinality(RunningTasks) + RegisteredNotStarted
    /\ wg = adds - SumTo(dones, Len(fs))
    /\ wg >= 0
    /\ wg = 0 => (RunningTasks = {} /\ RegisteredNotStarted = 0)

C15_Witness ==
    /\ wg >= 2
    /\ RegisteredNotStarted = 1
    /\ \E n \in Nodes : Terminated(n)

(***************************************************************************)
(* C16: in both variants, the final list is in arrival order at the        *)
(* collector and keeps each file's order: of two matches of one file the   *)
(* one with the smaller line index comes first.                            *)
(***************************************************************************)
C16_ArrivalAndPerFileOrder ==
    /\ list = SubSeq(sent, 1, Len(list))
    /\ MainReceived =>
        /\ hits = sent
        /\ \A i, j \in DOMAIN hits :
              (i < j /\ hits[i].path = hits[j].path) => hits[i].index < hits[j].index

C16_Witness ==
    /\ MainReceived
    /\ \E i, j, k \in DOMAIN hits :
          /\ i < j /\ j < k
          /\ hits[i].path = hits[k].path
          /\ hits[i].path # hits[j].path

(***************************************************************************)
(* C17: in both variants, the collector sends on results at most once,     *)
(* only after it has seen found closed and only a non-empty list; main     *)
(* receives from results at most once, and never before close(found).      *)
(***************************************************************************)
C17_PublishOnceAfterClose ==
    /\ published <= 1
    /\ received <= 1
    /\ (cpc = "send" \/ published > 0) => (foundClosed /\ Len(list) > 0)
    /\ received > 0 => (foundClosed /\ published = 1 /\ hits = list)

C17_Witness ==
    /\ published = 1
    /\ received = 1
    /\ Len(hits) >= 2

====
